---- MODULE Spec2Model ----
(***************************************************************************)
(* A model of scripts/generate_toplangs.py: the paginated repository       *)
(* listing, the per-repository language aggregation, the chart renderer,   *)
(* the badge renderers and main's sequencing of them.                      *)
(*                                                                         *)
(* Python values are encoded as follows.                                   *)
(*   - None / an absent value is <<>>, a present value v is <<v>>.         *)
(*   - A dict is the sequence of its <<key, value>> items in insertion     *)
(*     order (the order sorted() sees and keeps for equal keys).           *)
(*   - A str that is measured with len() is the sequence of its            *)
(*     characters.                                                         *)
(*   - A path is the sequence of its components; os.path.dirname drops the *)
(*     last one.                                                           *)
(*   - The float pct is kept as the exact ratio bytes_count / total_bytes; *)
(*     where the IEEE-754 evaluation can land on either side of the exact  *)
(*     value (a quotient that is not a dyadic rational) and the side       *)
(*     decides the result, the side is an input (fl) of the renderer.      *)
(***************************************************************************)
EXTENDS Integers, Sequences, FiniteSets, TLC

VARIABLES
    pc,        \* where main is: the next call it makes, or how it ended
    args,      \* argparse's result: [output, top]
    page,      \* get_repos: the page number of the next request
    fetched,   \* get_repos: its local list repos
    repos,     \* main: the list get_repos returned
    idx,       \* aggregate_languages: index of the next repo of the for loop
    totals,    \* aggregate_languages: its dict totals; then main's lang_totals
    user,      \* main: <<>> before get_user_info, then <<its result>>
    stats,     \* main: <<>>, then <<[public_repos, total_stars, followers]>>
    log,       \* every HTTP request made so far, with the response it got
    dirs,      \* file system: the directories that exist below the cwd
    files,     \* file system: path -> document written
    listings,  \* paired runs: the two repository listings compared
    results    \* paired runs: <<>>, then the outcome of main on each listing

vars == <<pc, args, page, fetched, repos, idx, totals, user, stats, log,
          dirs, files, listings, results>>

----------------------------------------------------------------------------
(* Bounds of the model *)

MaxRepos == 2
MaxTop == 3
Scale == 1000

(* Input samples *)

None == <<>>
Some(v) == <<v>>

Langs == {"Go", "Python", "Zig"}
ByteVals == {0, 1, 2, 100, 300}
StarVals == {None, Some(2)}
\* for each language of a chart, the side of the exact value its double is on
FloatSides(ls) == [ls -> {"below", "above"}]

DefaultOutput == <<"img", "top-langs.svg">>
OutputPaths == {DefaultOutput, <<"top-langs.svg">>, <<"out", "charts", "langs.svg">>}
DefaultTop == 6

PublicReposPath == <<"img", "public-repos.svg">>
StarsPath == <<"img", "stars.svg">>
GithubStatsPath == <<"img", "github-stats.svg">>

PublicReposLabel == <<"P", "u", "b", "l", "i", "c", " ", "R", "e", "p", "o", "s">>
StarsLabel == <<"S", "t", "a", "r", "s">>
FollowersLabel == <<"F", "o", "l", "l", "o", "w", "e", "r", "s">>

----------------------------------------------------------------------------
(* Generic helpers *)

Max(a, b) == IF a >= b THEN a ELSE b
Min(a, b) == IF a <= b THEN a ELSE b

RECURSIVE Gcd(_, _)
Gcd(a, b) == IF b = 0 THEN a ELSE Gcd(b, a % b)

RECURSIVE IsPow2(_)
IsPow2(n) == IF n = 1 THEN TRUE ELSE IF n % 2 = 1 THEN FALSE ELSE IsPow2(n \div 2)

\* b / t is a dyadic rational: the double b / t, and b / t * 100, are exact
Dyadic(b, t) == IsPow2(t \div Gcd(b, t))

DigitChars == <<"0", "1", "2", "3", "4", "5", "6", "7", "8", "9">>

\* str(n) of a non-negative int
RECURSIVE Str(_)
Str(n) == IF n < 10 THEN <<DigitChars[n + 1]>>
          ELSE Str(n \div 10) \o <<DigitChars[(n % 10) + 1]>>

\* dict helpers: a dict is a sequence of <<key, value>> items
Keys(d) == {d[i][1] : i \in 1..Len(d)}
Get(d, k) == LET i == CHOOSE j \in 1..Len(d) : d[j][1] = k IN d[i][2]

RECURSIVE SumValues(_)
SumValues(d) == IF d = <<>> THEN 0 ELSE d[1][2] + SumValues(Tail(d))

\* s[:n]
Slice(s, n) ==
    IF n >= 0 THEN SubSeq(s, 1, Min(n, Len(s)))
    ELSE SubSeq(s, 1, Max(0, Len(s) + n))

----------------------------------------------------------------------------
(* build_svg *)

LANG_COLORS ==
    [l \in {"Python", "JavaScript", "TypeScript", "C", "C++", "Java", "HTML",
            "CSS", "Go", "Shell", "Ruby", "PHP"} |->
        CASE l = "Python" -> "#3572A5"
          [] l = "JavaScript" -> "#f1e05a"
          [] l = "TypeScript" -> "#2b7489"
          [] l = "C" -> "#555555"
          [] l = "C++" -> "#f34b7d"
          [] l = "Java" -> "#b07219"
          [] l = "HTML" -> "#e34c26"
          [] l = "CSS" -> "#563d7c"
          [] l = "Go" -> "#00ADD8"
          [] l = "Shell" -> "#89e051"
          [] l = "Ruby" -> "#701516"
          [] l = "PHP" -> "#4F5D95"]
DEFAULT_COLOR == "#6c757d"

right_margin == 64
width == 500 + right_margin
row_height == 22
padding == 10
bar_x == 160
bar_w == width - bar_x - padding - 40
max_pct_x == width - padding
pct_x_candidate == bar_x + bar_w + 6

total_bytes(lang_data) == SumValues(lang_data)

\* sorted(lang_data.items(), key=lambda kv: kv[1], reverse=True): descending
\* by value, items of equal value in their original order
RECURSIVE sorted_items(_)
sorted_items(d) ==
    IF d = <<>> THEN <<>>
    ELSE LET i == CHOOSE j \in 1..Len(d) :
                    /\ \A k \in 1..Len(d) : d[k][2] <= d[j][2]
                    /\ \A k \in 1..(j - 1) : d[k][2] < d[j][2]
         IN <<d[i]>> \o sorted_items(SubSeq(d, 1, i - 1) \o SubSeq(d, i + 1, Len(d)))

items_of(lang_data, top_n) == Slice(sorted_items(lang_data), top_n)

\* f"{pct:.1f}" as a number of tenths, pct = bytes_count / total * 100 (0 when
\* total is 0): the nearest tenth; an exact tie goes to the even tenth when
\* the double is exact, and to the side the double landed on otherwise
pct_tenths(bytes_count, total, side) ==
    IF total = 0 THEN 0
    ELSE LET n == 1000 * bytes_count
             q == n \div total
             r == n % total
         IN IF 2 * r < total THEN q
            ELSE IF 2 * r > total THEN q + 1
            ELSE IF Dyadic(bytes_count, total)
                 THEN (IF q % 2 = 0 THEN q ELSE q + 1)
                 ELSE (IF side = "below" THEN q ELSE q + 1)

\* f"{pct:.1f}%"
pct_text(tenths) == Str(tenths \div 10) \o <<".">> \o Str(tenths % 10) \o <<"%">>

est_text_w(text) == Max(24, Len(text) * 7)

\* int(bar_w * (pct / 100)) if pct else 0
bar_len(bytes_count, total, side) ==
    IF total = 0 \/ bytes_count = 0 THEN 0
    ELSE LET q == (bar_w * bytes_count) \div total
             r == (bar_w * bytes_count) % total
         IN IF r = 0 /\ ~Dyadic(bytes_count, total) /\ side = "below"
            THEN q - 1 ELSE q

color_of(lang) == IF lang \in DOMAIN LANG_COLORS THEN LANG_COLORS[lang] ELSE DEFAULT_COLOR

\* a check against the canvas width, the right padding forgotten
overflows_canvas(text) == pct_x_candidate + est_text_w(text) > width

overflows(text) == pct_x_candidate + est_text_w(text) > max_pct_x

\* a row whose percentage is taken of the rows shown, not of the mapping
row_of_shown(i, item, total, fl) ==
    LET shown == SumValues(items_of(totals, args.top))
        text == pct_text(pct_tenths(item[2], shown, fl[item[1]]))
    IN [lang |-> item[1],
        bytes_count |-> item[2],
        y |-> padding + row_height * (i - 1),
        pct_text |-> text,
        pct_x |-> IF overflows(text) THEN max_pct_x ELSE pct_x_candidate,
        anchor |-> IF overflows(text) THEN "end" ELSE "start",
        bar_len |-> bar_len(item[2], shown, fl[item[1]]),
        color |-> color_of(item[1])]

\* one iteration of the for loop of build_svg: the i-th row
row_of(i, item, total, fl) ==
    LET text == pct_text(pct_tenths(item[2], total, fl[item[1]]))
    IN [lang |-> item[1],
        bytes_count |-> item[2],
        y |-> padding + row_height * (i - 1),
        pct_text |-> text,
        pct_x |-> IF overflows(text) THEN max_pct_x ELSE pct_x_candidate,
        anchor |-> IF overflows(text) THEN "end" ELSE "start",
        bar_len |-> bar_len(item[2], total, fl[item[1]]),
        color |-> color_of(item[1])]

\* the document build_svg writes
build_svg(lang_data, top_n, fl) ==
    LET items == items_of(lang_data, top_n)
        total == total_bytes(lang_data)
    IN [width |-> width,
        height |-> padding * 2 + row_height * Len(items),
        rows |-> [i \in 1..Len(items) |-> row_of(i, items[i], total, fl)]]

----------------------------------------------------------------------------
(* build_badge and build_stats_svg *)

badge_height == 20
left_w_of(label) == Max(80, 8 * Len(label) + 10)
right_w_of(value) == Max(50, 8 * Len(value) + 10)

\* the document build_badge writes
build_badge(label, value) ==
    [label |-> label,
     value |-> value,
     left_w |-> left_w_of(label),
     right_w |-> right_w_of(value),
     width |-> left_w_of(label) + right_w_of(value),
     height |-> badge_height]

spacing == 6

\* x of the i-th badge of the row: the widths and spacings before it
RECURSIVE badge_x(_, _)
badge_x(items, i) ==
    IF i = 1 THEN 0
    ELSE badge_x(items, i - 1) + left_w_of(items[i - 1][1])
         + right_w_of(items[i - 1][2]) + spacing

\* the document build_stats_svg writes
build_stats_svg(items) ==
    [total_width |->
        IF items = <<>> THEN 0
        ELSE badge_x(items, Len(items)) + left_w_of(items[Len(items)][1])
             + right_w_of(items[Len(items)][2]),
     height |-> badge_height,
     badges |-> [i \in 1..Len(items) |->
        [x |-> badge_x(items, i),
         label |-> items[i][1],
         value |-> items[i][2],
         left_w |-> left_w_of(items[i][1]),
         right_w |-> right_w_of(items[i][2])]]]

----------------------------------------------------------------------------
(* The file system: os.makedirs(os.path.dirname(p), exist_ok=True); open(p, "w") *)

dirname(path) == SubSeq(path, 1, Len(path) - 1)

\* os.makedirs("") raises FileNotFoundError
makedirs_raises(d) == d = <<>>

makedirs(existing, d) == existing \cup {SubSeq(d, 1, n) : n \in 1..Len(d)}

write_file(fs, path, doc) ==
    [p \in DOMAIN fs \cup {path} |-> IF p = path THEN doc ELSE fs[p]]

----------------------------------------------------------------------------
(* The hosting API, as the script sees it *)

OK == 200
FailStatuses == {403}

\* a repository record at position pos of the listing; its languages_url,
\* when it has one, is its own
RepoRecords(pos) ==
    [archived : BOOLEAN,
     languages_url : {None, Some(pos)},
     stargazers_count : StarVals]

\* the lists of n repository records that follow the first `before` ones
RECURSIVE RepoLists(_, _)
RepoLists(before, n) ==
    IF n = 0 THEN {<<>>}
    ELSE {<<r>> \o rest : r \in RepoRecords(before + 1),
                            rest \in RepoLists(before + 1, n - 1)}

\* what a repos page request can answer once `before` records were listed
PageResponses(before) ==
    [status : FailStatuses, data : {<<>>}]
    \cup [status : {OK}, data : UNION {RepoLists(before, n) : n \in 0..(MaxRepos - before)}]

LangBodies ==
    {<<>>,
     << <<"Go", 100>> >>,
     << <<"Python", 300>> >>,
     << <<"Go", 100>>, <<"Python", 300>> >>}

LangResponses ==
    [status : FailStatuses, body : {<<>>}] \cup [status : {OK}, body : LangBodies]

PublicReposVals == {0, 5}
FollowersVals == {7}

Profiles ==
    {[f \in S |-> IF f = "public_repos" THEN p ELSE w] :
        S \in SUBSET {"public_repos", "followers"},
        p \in PublicReposVals, w \in FollowersVals}

UserResponses ==
    [status : FailStatuses, body : {<<>>}] \cup [status : {OK}, body : Profiles]

----------------------------------------------------------------------------
(* aggregate_languages *)

\* totals[lang] = bytes_count: the last repository's count wins
add_bytes_overwrite(d, lang, bytes_count) ==
    IF lang \in Keys(d)
    THEN [i \in 1..Len(d) |-> IF d[i][1] = lang THEN <<lang, bytes_count>> ELSE d[i]]
    ELSE Append(d, <<lang, bytes_count>>)

\* totals[lang] += bytes_count on a defaultdict(int)
add_bytes(d, lang, bytes_count) ==
    IF lang \in Keys(d)
    THEN [i \in 1..Len(d) |->
            IF d[i][1] = lang THEN <<lang, d[i][2] + bytes_count>> ELSE d[i]]
    ELSE Append(d, <<lang, bytes_count>>)

\* for lang, bytes_count in r.json().items(): totals[lang] += bytes_count
RECURSIVE add_languages(_, _)
add_languages(d, body) ==
    IF body = <<>> THEN d
    ELSE add_languages(add_bytes(d, body[1][1], body[1][2]), Tail(body))

\* a loop body without the archived check
requests_languages_any(repo) == repo.languages_url # None

\* the loop body reaches SESSION.get(languages_url) for this repo
requests_languages(repo) == ~repo.archived /\ repo.languages_url # None

\* totals after the loop body ran on a repo whose request answered resp
visit_repo(d, repo, resp) ==
    IF ~requests_languages(repo) THEN d
    ELSE IF resp.status # OK THEN d
    ELSE add_languages(d, resp.body)

\* the whole loop, against a server that answers server[u] for languages_url u
RECURSIVE aggregate_languages(_, _)
aggregate_languages(rs, server) ==
    IF rs = <<>> THEN <<>>
    ELSE LET r == rs[Len(rs)]
             before == aggregate_languages(SubSeq(rs, 1, Len(rs) - 1), server)
         IN IF requests_languages(r)
            THEN visit_repo(before, r, server[r.languages_url[1]])
            ELSE before

----------------------------------------------------------------------------
(* main's own computations *)

get(d, k) == IF k \in DOMAIN d THEN Some(d[k]) ELSE None

\* get_user_info: the profile, or {} on a non-200 answer
get_user_info(resp) == IF resp.status # OK THEN <<>> ELSE resp.body

\* public_repos = user.get("public_repos") or len(repos): a count of 0 falls back
public_repos_of_falsy(u, rs) ==
    LET p == IF DOMAIN u # {} THEN get(u, "public_repos") ELSE None
    IN IF p = None \/ p = Some(0) THEN Len(rs) ELSE p[1]

\* public_repos = user.get("public_repos") if user else None;
\* if public_repos is None: public_repos = len(repos)
public_repos_of(u, rs) ==
    LET p == IF DOMAIN u # {} THEN get(u, "public_repos") ELSE None
    IN IF p = None THEN Len(rs) ELSE p[1]

\* (r.get('stargazers_count') or 0)
stars_of(r) == IF r.stargazers_count = None THEN 0 ELSE r.stargazers_count[1]

\* a star total without the archived filter
RECURSIVE total_stars_all(_)
total_stars_all(rs) ==
    IF rs = <<>> THEN 0 ELSE stars_of(rs[1]) + total_stars_all(Tail(rs))

\* sum((r.get('stargazers_count') or 0) for r in repos if not r.get('archived'))
RECURSIVE total_stars_of(_)
total_stars_of(rs) ==
    IF rs = <<>> THEN 0
    ELSE (IF rs[1].archived THEN 0 ELSE stars_of(rs[1])) + total_stars_of(Tail(rs))

followers_of(u) == IF DOMAIN u # {} THEN get(u, "followers") ELSE None

followers_text(f) == IF f = None THEN <<"-">> ELSE Str(f[1])

stats_items(s) ==
    << <<FollowersLabel, followers_text(s.followers)>>,
       <<StarsLabel, Str(s.total_stars)>>,
       <<PublicReposLabel, Str(s.public_repos)>> >>

----------------------------------------------------------------------------
(* main, one action per call that talks to the network or the file system *)

MainTops == {DefaultTop}

Init ==
    /\ pc = "get_repos"
    /\ args \in [output : OutputPaths, top : MainTops]
    /\ page = 1
    /\ fetched = <<>>
    /\ repos = <<>>
    /\ idx = 1
    /\ totals = <<>>
    /\ user = <<>>
    /\ stats = <<>>
    /\ log = <<>>
    /\ dirs = {}
    /\ files = <<>>
    /\ listings = <<>>
    /\ results = <<>>

\* a lister that takes a failed page for the end of the listing
after_page_lenient(resp) ==
    IF resp.status = OK /\ resp.data # <<>> THEN "get_repos"
    ELSE IF fetched = <<>> THEN "build_svg"
    ELSE "aggregate_languages"

\* what main does once get_repos answered a page request with resp
after_page(resp) ==
    IF resp.status # OK THEN "SystemExit"
    ELSE IF resp.data # <<>> THEN "get_repos"
    ELSE IF fetched = <<>> THEN "build_svg"
    ELSE "aggregate_languages"

\* get_repos: one iteration of its while loop
GetReposPage ==
    /\ pc = "get_repos"
    /\ \E resp \in PageResponses(Len(fetched)) :
        /\ log' = Append(log, [url |-> <<"repos", page>>, status |-> resp.status,
                               body |-> resp.data])
        /\ pc' = after_page(resp)
        /\ IF pc' = "get_repos"
           THEN /\ fetched' = fetched \o resp.data
                /\ page' = page + 1
                /\ repos' = repos
           ELSE /\ fetched' = <<>>
                /\ page' = page
                /\ repos' = IF pc' = "SystemExit" THEN repos ELSE fetched
    /\ UNCHANGED <<args, idx, totals, user, stats, dirs, files, listings, results>>

\* an aggregator with the lister's policy: a failed request ends the run
after_languages_fatal(resp) ==
    IF resp.status # OK THEN "SystemExit"
    ELSE IF idx + 1 > Len(repos) THEN "build_svg" ELSE "aggregate_languages"

\* what main does once the languages request of repos[idx] answered resp:
\* on any status the for loop goes on, and returns after the last repo
after_languages(resp) ==
    IF idx + 1 > Len(repos) THEN "build_svg" ELSE "aggregate_languages"

\* aggregate_languages: one iteration of its for loop
AggregateRepo ==
    /\ pc = "aggregate_languages"
    /\ idx <= Len(repos)
    /\ IF requests_languages(repos[idx])
       THEN \E resp \in LangResponses :
            /\ log' = Append(log, [url |-> <<"languages", repos[idx].languages_url[1]>>,
                                   status |-> resp.status, body |-> resp.body])
            /\ totals' = visit_repo(totals, repos[idx], resp)
            /\ pc' = after_languages(resp)
       ELSE /\ log' = log
            /\ totals' = totals
            /\ pc' = IF idx + 1 > Len(repos) THEN "build_svg" ELSE "aggregate_languages"
    /\ idx' = idx + 1
    /\ UNCHANGED <<args, page, fetched, repos, user, stats, dirs, files, listings, results>>

\* main's call of build_svg: the chart is rendered, the parent directory of
\* the output path is created and the file is written
BuildSvg ==
    /\ pc = "build_svg"
    /\ \E fl \in FloatSides(Keys(totals)) :
        LET doc == IF totals = <<>> THEN build_svg(<<>>, args.top, fl)
                   ELSE build_svg(totals, args.top, fl)
        IN IF makedirs_raises(dirname(args.output))
           THEN /\ pc' = "FileNotFoundError"
                /\ UNCHANGED <<dirs, files>>
           ELSE /\ pc' = "get_user_info"
                /\ dirs' = makedirs(dirs, dirname(args.output))
                /\ files' = write_file(files, args.output, doc)
    /\ UNCHANGED <<args, page, fetched, repos, idx, totals, user, stats, log,
                   listings, results>>

main_stats(u, rs) ==
    [public_repos |-> public_repos_of(u, rs),
     total_stars |-> total_stars_of(rs),
     followers |-> followers_of(u)]

\* get_user_info and the values main derives from its result
GetUserInfo ==
    /\ pc = "get_user_info"
    /\ \E resp \in UserResponses :
        /\ log' = Append(log, [url |-> <<"user">>, status |-> resp.status,
                               body |-> resp.body])
        /\ user' = Some(get_user_info(resp))
        /\ stats' = Some(main_stats(get_user_info(resp), repos))
    /\ pc' = "build_badge"
    /\ UNCHANGED <<args, page, fetched, repos, idx, totals, dirs, files, listings, results>>

\* the two build_badge calls and the build_stats_svg call that end main
WriteBadges ==
    /\ pc = "build_badge"
    /\ dirs' = makedirs(dirs, dirname(PublicReposPath))
    /\ files' = write_file(
                  write_file(
                    write_file(files, PublicReposPath,
                               build_badge(PublicReposLabel, Str(stats[1].public_repos))),
                    StarsPath, build_badge(StarsLabel, Str(stats[1].total_stars))),
                  GithubStatsPath, build_stats_svg(stats_items(stats[1])))
    /\ pc' = "done"
    /\ UNCHANGED <<args, page, fetched, repos, idx, totals, user, stats, log,
                   listings, results>>

Next == GetReposPage \/ AggregateRepo \/ BuildSvg \/ GetUserInfo \/ WriteBadges

Spec == Init /\ [][Next]_vars

\* the script runs to its end: no step it can take is postponed forever
FairSpec == Spec /\ WF_vars(Next)

----------------------------------------------------------------------------
(* build_svg on its own: main's call of it, entered with any mapping *)

TopVals == -1..MaxTop

\* the dicts over Langs with values in ByteVals, in every insertion order
LangDicts ==
    UNION {{[i \in 1..k |-> <<ks[i], vs[i]>>] :
                ks \in {s \in [1..k -> Langs] :
                            \A i, j \in 1..k : i # j => s[i] # s[j]},
                vs \in [1..k -> ByteVals]} :
           k \in 0..Cardinality(Langs)}

\* two languages that share Scale bytes: every percentage b * 100 / Scale
SweepDicts == {<< <<"Go", b>>, <<"Python", Scale - b>> >> : b \in 0..Scale}

ChartInit ==
    /\ pc = "build_svg"
    /\ args \in [output : {DefaultOutput}, top : TopVals \cup {DefaultTop}]
    /\ totals \in LangDicts \cup SweepDicts
    /\ page = 1
    /\ fetched = <<>>
    /\ repos = <<>>
    /\ idx = 1
    /\ user = <<>>
    /\ stats = <<>>
    /\ log = <<>>
    /\ dirs = {}
    /\ files = <<>>
    /\ listings = <<>>
    /\ results = <<>>

ChartNext == BuildSvg

ChartSpec == ChartInit /\ [][ChartNext]_vars

----------------------------------------------------------------------------
(* main as a function of what the API answers, and two runs side by side *)

\* the files main has written when it ends normally, for a listing rs that
\* get_repos returned, language answers server[u] and user answer uresp
main_result(rs, server, uresp, top_n, fl) ==
    LET st == main_stats(get_user_info(uresp), rs)
    IN [chart |-> build_svg(aggregate_languages(rs, server), top_n, fl),
        public_repos |-> build_badge(PublicReposLabel, Str(st.public_repos)),
        stars |-> build_badge(StarsLabel, Str(st.total_stars)),
        github_stats |-> build_stats_svg(stats_items(st))]

\* two listings cut from one sequence of tagged records: a record that is
\* not archived is in both, an archived one is in the first, the second or both
TaggedRecords(pos) ==
    {t \in [repo : RepoRecords(pos), of : {"both", "first", "second"}] :
        ~t.repo.archived => t.of = "both"}

RECURSIVE TaggedLists(_, _)
TaggedLists(before, n) ==
    IF n = 0 THEN {<<>>}
    ELSE {<<t>> \o rest : t \in TaggedRecords(before + 1),
                            rest \in TaggedLists(before + 1, n - 1)}

\* the languages_url values aggregate_languages requests for a listing
UrlsOf(rs) == {rs[i].languages_url[1] : i \in {j \in 1..Len(rs) : requests_languages(rs[j])}}

\* the languages the language answers name
BodyLangs == UNION {Keys(b) : b \in LangBodies}

RECURSIVE Cut(_, _)
Cut(ts, which) ==
    IF ts = <<>> THEN <<>>
    ELSE (IF ts[1].of \in {"both", which} THEN <<ts[1].repo>> ELSE <<>>)
         \o Cut(Tail(ts), which)

PairInit ==
    /\ pc = "paired"
    /\ args \in [output : {DefaultOutput}, top : MainTops]
    /\ \E n \in 0..MaxRepos : \E ts \in TaggedLists(0, n) :
            listings = <<Cut(ts, "first"), Cut(ts, "second")>>
    /\ results = <<>>
    /\ page = 1
    /\ fetched = <<>>
    /\ repos = <<>>
    /\ idx = 1
    /\ totals = <<>>
    /\ user = <<>>
    /\ stats = <<>>
    /\ log = <<>>
    /\ dirs = {}
    /\ files = <<>>

\* both runs get the same answer to every request they share
RunPair ==
    /\ pc = "paired"
    /\ \E server \in [UrlsOf(listings[1]) \cup UrlsOf(listings[2]) -> LangResponses],
          uresp \in UserResponses :
       \E fl \in FloatSides(Keys(aggregate_languages(listings[1], server))
                            \cup Keys(aggregate_languages(listings[2], server))) :
        results' = <<[uresp |-> uresp,
                      out |-> main_result(listings[1], server, uresp, args.top, fl)],
                     [uresp |-> uresp,
                      out |-> main_result(listings[2], server, uresp, args.top, fl)]>>
    /\ pc' = "compared"
    /\ UNCHANGED <<args, page, fetched, repos, idx, totals, user, stats, log,
                   dirs, files, listings>>

PairNext == RunPair

PairSpec == PairInit /\ [][PairNext]_vars

----------------------------------------------------------------------------
(* What the claims speak of, read off the log and the file system *)

IsPage(e) == e.url[1] = "repos"
IsLanguages(e) == e.url[1] = "languages"
IsUser(e) == e.url[1] = "user"

PageFailed == \E i \in 1..Len(log) : IsPage(log[i]) /\ log[i].status # OK

FourFiles == {DefaultOutput, PublicReposPath, StarsPath, GithubStatsPath}

\* get_repos returned
Listed == pc \notin {"get_repos", "SystemExit", "paired", "compared"}

\* aggregate_languages returned
Aggregated == Listed /\ pc # "aggregate_languages"

\* the number of repository records the page requests returned
RECURSIVE ListedCount(_)
ListedCount(l) ==
    IF l = <<>> THEN 0
    ELSE (IF IsPage(l[1]) THEN Len(l[1].body) ELSE 0) + ListedCount(Tail(l))

LanguageRequests == SelectSeq(log, IsLanguages)

\* the repos of the list aggregate_languages is to request: not archived, with a URL
Eligible == {j \in 1..Len(repos) : ~repos[j].archived /\ repos[j].languages_url # None}

\* the bytes a languages answer gives for lang
BytesIn(body, lang) == IF lang \in Keys(body) THEN Get(body, lang) ELSE 0

\* the sum, over the successful languages requests, of the bytes given for lang
RECURSIVE AnsweredBytes(_, _)
AnsweredBytes(reqs, lang) ==
    IF reqs = <<>> THEN 0
    ELSE (IF reqs[1].status = OK THEN BytesIn(reqs[1].body, lang) ELSE 0)
         + AnsweredBytes(Tail(reqs), lang)

RECURSIVE NonArchived(_)
NonArchived(rs) ==
    IF rs = <<>> THEN <<>>
    ELSE (IF rs[1].archived THEN <<>> ELSE <<rs[1]>>) \o NonArchived(Tail(rs))

\* the server the run saw: for each languages_url requested, the answer logged
LoggedServer ==
    [u \in {LanguageRequests[k].url[2] : k \in 1..Len(LanguageRequests)} |->
        LET k == CHOOSE k \in 1..Len(LanguageRequests) : LanguageRequests[k].url[2] = u
        IN [status |-> LanguageRequests[k].status, body |-> LanguageRequests[k].body]]

RECURSIVE StarSum(_)
StarSum(js) ==
    IF js = {} THEN 0
    ELSE LET j == CHOOSE j \in js : TRUE
         IN (IF repos[j].stargazers_count = None THEN 0 ELSE repos[j].stargazers_count[1])
            + StarSum(js \ {j})

----------------------------------------------------------------------------
(* Claims *)

\* C1: once a page request of the listing answered a non-success status, the
\* run is over: that request is the last one made, only page requests were
\* made (no languages request, no user request), main never got a repository
\* list, no file was written, and no step of the script is left to take.
C1_ListingFailureAborts ==
    PageFailed =>
        /\ pc = "SystemExit"
        /\ log[Len(log)].status # OK
        /\ \A i \in 1..Len(log) : IsPage(log[i]) /\ (i < Len(log) => log[i].status = OK)
        /\ repos = <<>>
        /\ fetched = <<>>
        /\ DOMAIN files = {}
        /\ dirs = {}
        /\ ~ENABLED Next

\* a later page failed after a page of repositories had been fetched
C1_Witness ==
    /\ pc = "SystemExit"
    /\ Len(log) = 2
    /\ Len(log[1].body) > 0
    /\ log[2].status # OK

\* C2: with the default output path, once the listing succeeded the run always
\* reaches its normal end with all four files written, whatever the languages
\* requests and the user request answer.
C2_ToleratedFailuresNeverAbort ==
    (Listed /\ args.output = DefaultOutput) ~> (pc = "done" /\ FourFiles \subseteq DOMAIN files)

\* the same, step by step: after the listing such a run is never at an abnormal
\* end, has a step to take until it is done, and is done with the four files
C2_NeverStuck ==
    (Listed /\ args.output = DefaultOutput) =>
        /\ pc \in {"aggregate_languages", "build_svg", "get_user_info", "build_badge", "done"}
        /\ pc # "done" => ENABLED Next
        /\ pc = "done" => FourFiles \subseteq DOMAIN files

\* a run that ended normally after a languages request and the user request failed
C2_Witness ==
    /\ pc = "done"
    /\ args.output = DefaultOutput
    /\ FourFiles \subseteq DOMAIN files
    /\ \E i \in 1..Len(log) : IsLanguages(log[i]) /\ log[i].status # OK
    /\ \E i \in 1..Len(log) : IsUser(log[i]) /\ log[i].status # OK

\* C3: no languages request is ever made for an archived repository; when
\* aggregate_languages has returned, its totals are those it returns for the
\* list without its archived entries; and the star total main computes is the
\* sum of the star counts of the non-archived repositories.
C3_ArchivedContributeNothing ==
    /\ \A i \in 1..Len(log) : IsLanguages(log[i]) => ~repos[log[i].url[2]].archived
    /\ Aggregated => totals = aggregate_languages(NonArchived(repos), LoggedServer)
    /\ stats # <<>> =>
         stats[1].total_stars = StarSum({j \in 1..Len(repos) : ~repos[j].archived})

\* a finished run whose list has an archived repository with a URL and stars,
\* next to a non-archived one that gave bytes and has stars
C3_Witness ==
    /\ pc = "done"
    /\ \E j \in 1..Len(repos) :
         /\ repos[j].archived
         /\ repos[j].languages_url # None
         /\ repos[j].stargazers_count = Some(2)
    /\ \E j \in 1..Len(repos) : ~repos[j].archived /\ repos[j].stargazers_count = Some(2)
    /\ totals # <<>>

\* C4: when aggregate_languages has returned, the languages requests made are
\* those of the non-archived repositories with a URL, one each, in list order,
\* whatever their statuses; and for each language the total is the sum of the
\* bytes the successful requests gave for it, a language being in the totals
\* only if a successful request named it.
C4_ResilientAggregation ==
    Aggregated =>
        /\ Len(LanguageRequests) = Cardinality(Eligible)
        /\ \A k \in 1..Len(LanguageRequests) : LanguageRequests[k].url[2] \in Eligible
        /\ \A k, m \in 1..Len(LanguageRequests) :
             k < m => LanguageRequests[k].url[2] < LanguageRequests[m].url[2]
        /\ \A lang \in Langs :
             /\ BytesIn(totals, lang) = AnsweredBytes(LanguageRequests, lang)
             /\ lang \in Keys(totals) <=>
                  \E k \in 1..Len(LanguageRequests) :
                     /\ LanguageRequests[k].status = OK
                     /\ lang \in Keys(LanguageRequests[k].body)
        /\ Keys(totals) \subseteq Langs
        /\ \A i, j \in 1..Len(totals) : i # j => totals[i][1] # totals[j][1]

\* a failed request was followed by a successful one for a later repository,
\* whose bytes are the totals
C4_Witness ==
    /\ Aggregated
    /\ Len(LanguageRequests) = 2
    /\ LanguageRequests[1].status # OK
    /\ LanguageRequests[2].status = OK
    /\ LanguageRequests[2].body # <<>>
    /\ totals = LanguageRequests[2].body

\* C7: the public-repo badge and the stats row show the same value: the
\* profile's public_repos when the user request succeeded and the profile has
\* the field (also when it is 0), and otherwise the number of repositories the
\* page requests returned.
C7_PublicRepoFallback ==
    pc = "done" =>
        LET u == log[Len(log)]
            shown == files[PublicReposPath].value
        IN /\ IsUser(u)
           /\ files[PublicReposPath].label = PublicReposLabel
           /\ files[GithubStatsPath].badges[3].label = PublicReposLabel
           /\ files[GithubStatsPath].badges[3].value = shown
           /\ IF u.status = OK /\ "public_repos" \in DOMAIN u.body
              THEN shown = Str(u.body.public_repos)
              ELSE shown = Str(ListedCount(log))

\* a finished run of a user with repositories whose profile says 0
C7_Witness ==
    /\ pc = "done"
    /\ ListedCount(log) > 0
    /\ log[Len(log)].status = OK
    /\ "public_repos" \in DOMAIN log[Len(log)].body
    /\ log[Len(log)].body.public_repos = 0

\* the fallback: a finished run whose profile lacks the field
C7_FallbackReached ==
    /\ pc = "done"
    /\ ListedCount(log) > 1
    /\ log[Len(log)].status = OK
    /\ DOMAIN log[Len(log)].body = {"followers"}

\* C9: for every output path, build_svg returns normally with the chart
\* written at that path and every parent directory of it in place.
C9_EveryOutputPathIsWritten ==
    (Aggregated /\ pc # "build_svg") =>
        /\ pc # "FileNotFoundError"
        /\ args.output \in DOMAIN files
        /\ \A n \in 1..(Len(args.output) - 1) : SubSeq(args.output, 1, n) \in dirs

\* what the code does hold to: a path with a directory component is written,
\* with its parent directories, and a bare file name ends the run at build_svg
C9_Observed ==
    (Aggregated /\ pc # "build_svg") =>
        IF Len(args.output) > 1
        THEN /\ pc # "FileNotFoundError"
             /\ args.output \in DOMAIN files
             /\ \A n \in 1..(Len(args.output) - 1) : SubSeq(args.output, 1, n) \in dirs
        ELSE /\ pc = "FileNotFoundError"
             /\ DOMAIN files = {}

\* The step-by-step run and main_result agree: a run that ended normally wrote
\* the files main_result gives for the list returned and the answers logged.
RunMatchesMainResult ==
    pc = "done" =>
        \E fl \in FloatSides(Keys(totals)) :
            LET u == log[Len(log)]
                r == main_result(repos, LoggedServer,
                                 [status |-> u.status, body |-> u.body], args.top, fl)
            IN /\ files[args.output] = r.chart
               /\ files[PublicReposPath] = r.public_repos
               /\ files[StarsPath] = r.stars
               /\ files[GithubStatsPath] = r.github_stats

----------------------------------------------------------------------------
(* Claims about the chart *)

\* build_svg returned: the chart main asked for is on disk
ChartWritten == pc = "get_user_info" /\ args.output \in DOMAIN files

Rows == files[args.output].rows

Abs(x) == IF x < 0 THEN 0 - x ELSE x

\* the text shows the tenth nearest to 100 * b / g (either one at a tie)
ShowsPercentOf(text, b, g) ==
    \E k \in 0..1000 : Abs(2000 * b - 2 * k * g) <= g /\ text = pct_text(k)

\* C5: for a row limit N >= 0 the chart has min(N, number of languages) rows,
\* each a language of the mapping with its byte count and no language twice,
\* in non-increasing byte-count order, no language left out having more bytes
\* than one shown; each row's text is its share of the grand total of the
\* whole mapping, to the nearest tenth, and 0.0% when that total is 0. For
\* Go 100 and Python 300 with N = 2: Python 75.0%, then Go 25.0%.
C5_TopRowsAndPercentages ==
    (ChartWritten /\ args.top >= 0) =>
        /\ Len(Rows) = Min(args.top, Len(totals))
        /\ files[args.output].height = 20 + 22 * Len(Rows)
        /\ \A i \in 1..Len(Rows) :
             /\ \E j \in 1..Len(totals) : totals[j] = <<Rows[i].lang, Rows[i].bytes_count>>
             /\ \A j \in 1..Len(Rows) : i < j =>
                  /\ Rows[i].bytes_count >= Rows[j].bytes_count
                  /\ Rows[i].lang # Rows[j].lang
             /\ \A j \in 1..Len(totals) :
                  (\A m \in 1..Len(Rows) : Rows[m].lang # totals[j][1])
                      => totals[j][2] <= Rows[i].bytes_count
             /\ IF SumValues(totals) = 0
                THEN Rows[i].pct_text = <<"0", ".", "0", "%">>
                ELSE ShowsPercentOf(Rows[i].pct_text, Rows[i].bytes_count, SumValues(totals))
        /\ (Keys(totals) = {"Go", "Python"} /\ BytesIn(totals, "Go") = 100
              /\ BytesIn(totals, "Python") = 300 /\ args.top = 2) =>
             /\ Len(Rows) = 2
             /\ Rows[1].lang = "Python" /\ Rows[1].pct_text = <<"7", "5", ".", "0", "%">>
             /\ Rows[2].lang = "Go" /\ Rows[2].pct_text = <<"2", "5", ".", "0", "%">>

\* three languages with bytes, the smallest one cut off by N = 2
C5_Witness ==
    /\ ChartWritten
    /\ args.top = 2
    /\ Len(totals) = 3
    /\ Len(Rows) = 2
    /\ \E j \in 1..3 : totals[j][2] > 0 /\ \A m \in 1..2 : Rows[m].lang # totals[j][1]

\* the example of the claim: Go 100 and Python 300 with N = 2
C5_ExampleReached ==
    /\ ChartWritten
    /\ totals = << <<"Go", 100>>, <<"Python", 300>> >>
    /\ args.top = 2

\* the empty mapping: a chart without rows
C5_EmptyReached == ChartWritten /\ totals = <<>> /\ args.top = 2 /\ Len(Rows) = 0

\* C6: in every row the text is start-anchored at 520 only when 520 plus
\* max(24, 7 * characters) is at most 554 and is otherwise end-anchored at 554;
\* either way the estimated extent of the text lies within the canvas [0, 564].
C6_TextInsideCanvas ==
    ChartWritten =>
        \A i \in 1..Len(Rows) :
            LET est == Max(24, 7 * Len(Rows[i].pct_text))
                row == Rows[i]
            IN /\ files[args.output].width = 564
               /\ Len(row.pct_text) \in 4..6
               /\ IF 520 + est <= 554
                  THEN row.anchor = "start" /\ row.pct_x = 520
                  ELSE row.anchor = "end" /\ row.pct_x = 554
               /\ row.anchor = "start" => 0 <= row.pct_x /\ row.pct_x + est <= 564
               /\ row.anchor = "end" => 0 <= row.pct_x - est /\ row.pct_x <= 564

\* a chart with a start-anchored 0.0% and an end-anchored 100.0%
C6_Witness ==
    /\ ChartWritten
    /\ \E i, j \in 1..Len(Rows) :
         /\ Rows[i].anchor = "end" /\ Len(Rows[i].pct_text) = 6
         /\ Rows[j].anchor = "start" /\ Len(Rows[j].pct_text) = 4

\* an end-anchored text of five characters
C6_FiveCharactersReached ==
    ChartWritten /\ \E i \in 1..Len(Rows) : Rows[i].anchor = "end" /\ Len(Rows[i].pct_text) = 5

\* C10: in every row the right end of the bar is at or left of the left edge
\* of the percentage text: 520 when start-anchored, 554 minus the estimated
\* text width when end-anchored.
C10_TextAfterBar ==
    ChartWritten =>
        \A i \in 1..Len(Rows) :
            LET est == Max(24, 7 * Len(Rows[i].pct_text))
                left == IF Rows[i].anchor = "start" THEN Rows[i].pct_x ELSE Rows[i].pct_x - est
            IN 160 + Rows[i].bar_len <= left

\* what the code does hold to: the bar ends left of the text in every row whose
\* text has at most five characters, and ends at 513 or 514, right of the text's
\* left edge 512, in a row that shows 100.0%
C10_Observed ==
    ChartWritten =>
        \A i \in 1..Len(Rows) :
            LET est == Max(24, 7 * Len(Rows[i].pct_text))
                left == IF Rows[i].anchor = "start" THEN Rows[i].pct_x ELSE Rows[i].pct_x - est
            IN IF Len(Rows[i].pct_text) <= 5
               THEN 160 + Rows[i].bar_len <= left
               ELSE left = 512 /\ 160 + Rows[i].bar_len \in {513, 514}

----------------------------------------------------------------------------
(* Claims about two runs *)

Compared == pc = "compared"

SameChart == results[1].out.chart = results[2].out.chart
SameStars ==
    /\ results[1].out.stars = results[2].out.stars
    /\ results[1].out.github_stats.badges[2] = results[2].out.github_stats.badges[2]
SamePublicRepos == results[1].out.public_repos.value = results[2].out.public_repos.value

ProfileCounts ==
    results[1].uresp.status = OK /\ "public_repos" \in DOMAIN results[1].uresp.body

\* C8 as stated: two runs whose listings differ only in archived entries write
\* the same chart, the same star total and the same public-repo count.
C8_ArchivedChangeNothing ==
    Compared => SameChart /\ SameStars /\ SamePublicRepos

\* C8 as amended: they write the same chart and the same star total; the
\* public-repo count is the same when the profile gives it, and is otherwise
\* each listing's own length, archived entries included.
C8_ArchivedChangeChartAndStarsNot ==
    Compared =>
        /\ SameChart
        /\ SameStars
        /\ IF ProfileCounts
           THEN SamePublicRepos
           ELSE \A r \in 1..2 : results[r].out.public_repos.value = Str(Len(listings[r]))

\* the first listing has an archived repository with a URL and stars that the
\* second has not, next to a shared repository that gave bytes
C8_Witness ==
    /\ Compared
    /\ Len(listings[1]) = Len(listings[2]) + 1
    /\ \E j \in 1..Len(listings[1]) :
         /\ listings[1][j].archived
         /\ listings[1][j].languages_url # None
         /\ listings[1][j].stargazers_count = Some(2)
    /\ \A j \in 1..Len(listings[2]) : ~listings[2][j].archived
    /\ Len(results[1].out.chart.rows) > 0

====
